---- MODULE Spec2Model ----
(***************************************************************************)
(* Model of the contract-resolution request handler getContract            *)
(* (src/unnamed/part_000, lines 31-255).  One behaviour is one request:    *)
(* every await of the handler is one step, the answer of the upstream      *)
(* collaborator at that await is the step's input.  Texts that the code    *)
(* inspects character by character (addresses, bytecode, signatures) are   *)
(* sequences of one-character strings.                                     *)
(***************************************************************************)
EXTENDS Integers, Sequences, FiniteSets, TLC

VARIABLES
    pc,            \* position of the handler: the await it is suspended at
    query,         \* req.query of the request being handled
    env,           \* process.env: the configuration the handler reads
    calls,         \* every external request issued so far, in issue order
    sent,          \* every response written to res, in order
    up,            \* what the explorer and the node answered (the upstream facts)
    abi,           \* local `abi` of the verified tier
    contractName,  \* local `contractName`
    bytecode,      \* local `bytecode` of the recovery tier
    uniqueSelectors, \* local `uniqueSelectors`
    results,       \* per selector: the settled value of its fetchSignature promise
    lookups,       \* per selector: how its registry lookup ended
    completed      \* the selectors' numbers, in the order their lookups settled

vars == <<pc, query, env, calls, sent, up, abi, contractName,
          bytecode, uniqueSelectors, results, lookups, completed>>

-----------------------------------------------------------------------------
(* Bounds of the model *)

MaxAbiLen == 2

MaxCandidates == 2

MaxChunks == 4

(* Constants of the program *)

AddrHexLen == 40
SelectorHexLen == 8

-----------------------------------------------------------------------------
(* Text helpers *)

RECURSIVE Rep(_, _)
Rep(c, n) == IF n = 0 THEN <<>> ELSE <<c>> \o Rep(c, n - 1)

HexDigits == {"0", "1", "2", "3", "4", "5", "6", "7", "8", "9",
              "a", "b", "c", "d", "e", "f", "A", "B", "C", "D", "E", "F"}

\* [a-zA-Z0-9_]
IdentChars ==
    HexDigits \cup {"_"}
    \cup {"g", "h", "i", "j", "k", "l", "m", "n", "o", "p", "q", "r", "s", "t", "u", "v", "w",
           "x", "y", "z"}
    \cup {"G", "H", "I", "J", "K", "L", "M", "N", "O", "P", "Q", "R", "S", "T", "U", "V", "W",
           "X", "Y", "Z"}

SeqsUpTo(S, n) == UNION {[1..k -> S] : k \in 0..n}

Range(s) == {s[i] : i \in DOMAIN s}

\* a hex text with its letters in lower case
LowerChar(c) ==
    CASE c = "A" -> "a" [] c = "B" -> "b" [] c = "C" -> "c"
      [] c = "D" -> "d" [] c = "E" -> "e" [] c = "F" -> "f" [] OTHER -> c

Lower(t) == [i \in DOMAIN t |-> LowerChar(t[i])]

\* z.string().regex(/^0x[a-fA-F0-9]{40}$/)
AddressRegex(s) ==
    /\ Len(s) = 2 + AddrHexLen
    /\ s[1] = "0"
    /\ s[2] = "x"
    /\ \A i \in 3..Len(s) : s[i] \in HexDigits

-----------------------------------------------------------------------------
(* The request: req.query *)

Absent == [present |-> FALSE, text |-> <<>>]
Given(t) == [present |-> TRUE, text |-> t]

AddrLower == <<"0", "x">> \o Rep("a", AddrHexLen)
AddrMixed == <<"0", "x", "A">> \o Rep("b", AddrHexLen - 1)
AddrImpl  == <<"0", "x">> \o Rep("c", AddrHexLen)

QueryAddresses ==
    { Absent,
      Given(AddrLower),
      Given(AddrMixed),
      Given(<<"0", "x">> \o Rep("a", AddrHexLen - 1)),          \* one digit short
      Given(<<"0", "x">> \o Rep("a", AddrHexLen + 1)),          \* one digit long
      Given(<<"0", "x">> \o Rep("a", AddrHexLen - 1) \o <<"g">>), \* not a hex digit
      Given(<<"0", "X">> \o Rep("a", AddrHexLen)),              \* upper-case prefix
      Given(Rep("a", AddrHexLen)) }                             \* no prefix

QueryNetworks ==
    { Absent, Given(<<"mainnet">>), Given(<<"testnet">>), Given(<<"goerli">>), Given(<<"">>) }

\* getContractSchema.parse: the parsed {address, network}, or a ZodError
AddressOk(q) == q.address.present /\ AddressRegex(q.address.text)

NetworkOk(q) == ~q.network.present \/ q.network.text \in {<<"mainnet">>, <<"testnet">>}

\* a schema that forgets the network enum
SchemaOkAddressOnly(q) == AddressOk(q)

SchemaOk(q) == AddressOk(q) /\ NetworkOk(q)

ParsedNetwork(q) == IF q.network.present THEN q.network.text[1] ELSE "mainnet"

\* a schema that lower-cases the address it accepts
ParsedAddressLowered(q) == Lower(q.address.text)

ParsedAddress(q) == q.address.text

ChainId(network) == IF network = "testnet" THEN "84532" ELSE "8453"

-----------------------------------------------------------------------------
(* Configuration: process.env.  URLs are sequences of their parts, so that *)
(* String.includes is a test on the parts.                                 *)

Envs ==
    { [apiKey |-> "",    rpcUrl |-> <<>>],
      [apiKey |-> "KEY", rpcUrl |-> <<"https://", "rpc.example">>],
      [apiKey |-> "",    rpcUrl |-> <<"https://", "basescan.org", "/rpc">>],
      [apiKey |-> "KEY", rpcUrl |-> <<"https://", "api.", "etherscan.io">>] }

Includes(url, part) == part \in Range(url)

DefaultRpc(network) ==
    IF network = "testnet" THEN <<"https://", "sepolia.base.org">>
                           ELSE <<"https://", "mainnet.base.org">>

\* lines 130-137: the configured endpoint, unless unset or an explorer's
RpcUrl(e, network) ==
    LET configured == IF e.rpcUrl = <<>> THEN DefaultRpc(network) ELSE e.rpcUrl
    IN  IF Includes(configured, "basescan.org") \/ Includes(configured, "etherscan.io")
        THEN DefaultRpc(network)
        ELSE configured

-----------------------------------------------------------------------------
(* ABI JSON.  An ABI entry (a JSON object) is one token; the text of an    *)
(* ABI is the token sequence  [ e , e , ... ]                              *)

AbiEntries == {"transfer", "approve"}

AbiLists == SeqsUpTo(AbiEntries, MaxAbiLen)

RECURSIVE JoinComma(_)
JoinComma(l) ==
    IF Len(l) = 0 THEN <<>>
    ELSE IF Len(l) = 1 THEN <<l[1]>>
    ELSE <<l[1], ",">> \o JoinComma(Tail(l))

Stringify(l) == <<"[">> \o JoinComma(l) \o <<"]">>

\* the elements of  e , e , ... , e  or a failure
RECURSIVE ParseElements(_)
ParseElements(t) ==
    IF Len(t) = 0 \/ t[1] \notin AbiEntries THEN [ok |-> FALSE, value |-> <<>>]
    ELSE IF Len(t) = 1 THEN [ok |-> TRUE, value |-> <<t[1]>>]
    ELSE IF t[2] # "," THEN [ok |-> FALSE, value |-> <<>>]
    ELSE LET rest == ParseElements(SubSeq(t, 3, Len(t)))
         IN  [ok |-> rest.ok, value |-> IF rest.ok THEN <<t[1]>> \o rest.value ELSE <<>>]

\* JSON.parse of an ABI text (lines 71, 96): ok = FALSE is the SyntaxError
JsonParse(t) ==
    IF Len(t) < 2 \/ t[1] # "[" \/ t[Len(t)] # "]" THEN [ok |-> FALSE, value |-> <<>>]
    ELSE IF Len(t) = 2 THEN [ok |-> TRUE, value |-> <<>>]
    ELSE ParseElements(SubSeq(t, 2, Len(t) - 1))

MalformedTexts == { <<"[", "transfer">>, <<"[", "transfer", ",", "]">> }

-----------------------------------------------------------------------------
(* Answers of the explorer.  kind: "neterr" fetch rejects, "http" a        *)
(* response whose ok is false, "badjson" response.json() rejects, "body"   *)
(* a JSON body.  entries/wellFormed record what the explorer serialized.   *)

Answer(kind, status, result, entries, wellFormed) ==
    [kind |-> kind, status |-> status, result |-> result,
     entries |-> entries, wellFormed |-> wellFormed]

NoAnswer == Answer("none", "", <<>>, <<>>, FALSE)

TransportFailures ==
    { Answer(k, "", <<>>, <<>>, FALSE) : k \in {"neterr", "http", "badjson"} }

AbiAnswers ==
    TransportFailures
    \cup { Answer("body", "1", Stringify(l), l, TRUE) : l \in AbiLists }
    \cup { Answer("body", "1", t, <<>>, FALSE) : t \in MalformedTexts \cup {<<>>} }
    \cup { Answer("body", "0", <<>>, <<>>, FALSE),
           Answer("body", "0", Stringify(<<"transfer">>), <<"transfer">>, TRUE) }

\* 'get source code': result is the array of EtherscanSourceCode, or a text
SourceRecords ==
    [ContractName : {<<>>, <<"Vault">>}, Proxy : {"0", "1"}, Implementation : {<<>>, AddrImpl}]

SourceAnswer(kind, status, isArray, result) ==
    [kind |-> kind, status |-> status, isArray |-> isArray, result |-> result]

NoSourceAnswer == SourceAnswer("none", "", FALSE, <<>>)

SourceAnswers ==
    { SourceAnswer(k, "", FALSE, <<>>) : k \in {"neterr", "http", "badjson"} }
    \cup { SourceAnswer("body", "1", TRUE, <<r>>) : r \in SourceRecords }
    \cup { SourceAnswer("body", "1", TRUE, <<>>),
           SourceAnswer("body", "1", FALSE, <<>>),
           SourceAnswer("body", "0", TRUE,
                        <<[ContractName |-> <<"Vault">>, Proxy |-> "1", Implementation |-> AddrImpl]>>) }

-----------------------------------------------------------------------------
(* External requests and responses *)

ApiKeyParam(e) == IF e.apiKey # "" THEN <<"&apikey=", e.apiKey>> ELSE <<>>

ExplorerCall(action, chainId, address, e) ==
    [to |-> "explorer", action |-> action, chainid |-> chainId,
     address |-> address, apikey |-> ApiKeyParam(e)]

RpcCall(url, address) ==
    [to |-> "rpc", url |-> url, method |-> "eth_getCode", params |-> <<address, "latest">>]

RegistryCall(selector) == [to |-> "registry", hex_signature |-> selector]

Verified200(address, name, abiValue) ==
    [status |-> 200,
     body |-> [success |-> TRUE,
               data |-> [address |-> address, name |-> name, abi |-> abiValue,
                         isVerified |-> TRUE]]]

\* a recovered answer that keeps the verified tag
Recovered200TaggedVerified(address, abiValue) ==
    [status |-> 200,
     body |-> [success |-> TRUE,
               data |-> [address |-> address, name |-> <<"Unverified Contract (Recovered)">>,
                         abi |-> abiValue, isVerified |-> TRUE, isRecovered |-> TRUE]]]

\* lines 215-224
Recovered200(address, abiValue) ==
    [status |-> 200,
     body |-> [success |-> TRUE,
               data |-> [address |-> address, name |-> <<"Unverified Contract (Recovered)">>,
                         abi |-> abiValue, isVerified |-> FALSE, isRecovered |-> TRUE]]]

\* details: the fields of the ZodError's issues
Invalid400(q) ==
    [status |-> 400,
     body |-> [success |-> FALSE, error |-> "Invalid request",
               details |-> (IF AddressOk(q) THEN {} ELSE {"address"})
                           \cup (IF NetworkOk(q) THEN {} ELSE {"network"})]]

Manual404 ==
    [status |-> 404,
     body |-> [success |-> FALSE, error |-> "Contract not verified and recovery failed",
               code |-> "REQUIRE_MANUAL_ABI"]]

-----------------------------------------------------------------------------
(* Bytecode and selectors *)

Bytecodes ==
    { \* 63 aabbccdd 00 63 aabbccdd : the same immediate at two offsets
      <<"0","x", "6","3", "a","a","b","b","c","c","d","d", "0","0",
                 "6","3", "a","a","b","b","c","c","d","d">>,
      \* 63 a9059cbb 63 095ea7b3 : two immediates
      <<"0","x", "6","3", "a","9","0","5","9","c","b","b",
                 "6","3", "0","9","5","e","a","7","b","3">>,
      \* 63 AABBCCDD : upper-case digits
      <<"0","x", "6","3", "A","A","B","B","C","C","D","D">>,
      \* 16 3a ab bc cd d0 : the digits 63 straddle two bytes
      <<"0","x", "1","6", "3","a", "a","b", "b","c", "c","d", "d","0">>,
      \* 60 01 63 aabb : no push-4 with four bytes after it
      <<"0","x", "6","0", "0","1", "6","3", "a","a","b","b">> }

\* bytecode.match(/63([0-9a-fA-F]{8})/g): the matches, leftmost first, not overlapping
RECURSIVE MatchAll(_, _)
MatchAll(s, i) ==
    IF i + 1 + SelectorHexLen > Len(s) THEN <<>>
    ELSE IF /\ s[i] = "6"
            /\ s[i + 1] = "3"
            /\ \A k \in (i + 2)..(i + 1 + SelectorHexLen) : s[k] \in HexDigits
         THEN <<SubSeq(s, i, i + 1 + SelectorHexLen)>> \o MatchAll(s, i + 2 + SelectorHexLen)
         ELSE MatchAll(s, i + 1)

\* no Set: every match is kept
UniqueNot(l) == l

\* [...new Set(l)]: first occurrences, in order
RECURSIVE Unique(_)
Unique(l) ==
    IF Len(l) = 0 THEN <<>>
    ELSE LET front == Unique(SubSeq(l, 1, Len(l) - 1))
             last  == l[Len(l)]
         IN  IF last \in Range(front) THEN front ELSE Append(front, last)

\* lines 162-163
ExtractSelectors(code) ==
    LET matches == MatchAll(code, 1)
    IN  Unique([i \in DOMAIN matches |-> <<"0", "x">> \o SubSeq(matches[i], 3, Len(matches[i]))])

-----------------------------------------------------------------------------
(* The signature registry and fetchSignature *)

Candidate(id, text) == [id |-> id, text_signature |-> text]

Candidates ==
    { Candidate(2, <<"s","e","t","(","i","n","t",","," ","i","n","t",")">>),
      Candidate(2, <<"r","-","n","(",")">>),
      Candidate(5, <<"r","u","n","(",")">>) }

RegistryAnswer(kind, hasResults, res) == [kind |-> kind, hasResults |-> hasResults, results |-> res]

NoRegistryAnswer == RegistryAnswer("none", FALSE, <<>>)

RegistryAnswers ==
    { RegistryAnswer(k, FALSE, <<>>) : k \in {"neterr", "http", "badjson"} }
    \cup { RegistryAnswer("body", FALSE, <<>>) }
    \cup { RegistryAnswer("body", TRUE, l) : l \in SeqsUpTo(Candidates, MaxCandidates) }

\* Array.prototype.sort((a, b) => a.id - b.id): stable
RECURSIVE InsertById(_, _)
InsertById(sorted, c) ==
    IF Len(sorted) = 0 THEN <<c>>
    ELSE IF c.id < sorted[1].id THEN <<c>> \o sorted
    ELSE <<sorted[1]>> \o InsertById(Tail(sorted), c)

\* no sort: the candidates stay as the registry listed them
SortAsListed(l) == l

RECURSIVE SortById(_)
SortById(l) ==
    IF Len(l) = 0 THEN <<>>
    ELSE InsertById(SortById(SubSeq(l, 1, Len(l) - 1)), l[Len(l)])

\* length of the longest prefix of identifier characters
RECURSIVE IdentPrefix(_)
IdentPrefix(t) ==
    IF Len(t) = 0 \/ t[1] \notin IdentChars THEN 0 ELSE 1 + IdentPrefix(Tail(t))

\* bestSig.match(/^([a-zA-Z0-9_]+)\((.*)\)$/): the two groups, or no match
SignatureMatch(t) ==
    LET n == IdentPrefix(t)
    IN  IF n >= 1 /\ Len(t) >= n + 2 /\ t[n + 1] = "(" /\ t[Len(t)] = ")"
        THEN [matched |-> TRUE, name |-> SubSeq(t, 1, n), args |-> SubSeq(t, n + 2, Len(t) - 1)]
        ELSE [matched |-> FALSE, name |-> <<>>, args |-> <<>>]

\* String.split(',')
RECURSIVE SplitComma(_, _)
SplitComma(t, acc) ==
    IF Len(t) = 0 THEN <<acc>>
    ELSE IF t[1] = "," THEN <<acc>> \o SplitComma(Tail(t), <<>>)
    ELSE SplitComma(Tail(t), Append(acc, t[1]))

\* String.trim()
RECURSIVE Trim(_)
Trim(t) ==
    IF Len(t) = 0 THEN t
    ELSE IF t[1] = " " THEN Trim(Tail(t))
    ELSE IF t[Len(t)] = " " THEN Trim(SubSeq(t, 1, Len(t) - 1))
    ELSE t

FunctionDescriptor(name, inputs, selector) ==
    [type |-> "function", name |-> name, inputs |-> inputs,
     stateMutability |-> "nonpayable", selector |-> selector]

\* a placeholder named from the whole selector, 0x included
PlaceholderKeepsPrefix(selector) ==
    FunctionDescriptor(<<"u","n","k","n","o","w","n","_">> \o selector, <<>>, selector)

\* lines 202-208
Placeholder(selector) ==
    FunctionDescriptor(<<"u","n","k","n","o","w","n","_">> \o SubSeq(selector, 3, Len(selector)),
                       <<>>, selector)

Fulfilled(d) == [state |-> "fulfilled", null |-> FALSE, value |-> d]

FulfilledNull == [state |-> "fulfilled", null |-> TRUE, value |-> <<>>]

Pending == [state |-> "pending", null |-> FALSE, value |-> <<>>]

\* lines 185-196: the descriptor of a signature text, or the placeholder
ParseSignature(bestSig, selector) ==
    LET nameMatch == SignatureMatch(bestSig)
        args == IF nameMatch.args # <<>> THEN SplitComma(nameMatch.args, <<>>) ELSE <<>>
    IN  IF nameMatch.matched
        THEN FunctionDescriptor(nameMatch.name,
                                [i \in DOMAIN args |-> [type |-> Trim(args[i]), name |-> <<>>]],
                                selector)
        ELSE Placeholder(selector)

\* a lookup that gives up (null) on a network error as on a non-OK status
FetchSignatureNullOnError(selector, answer) ==
    IF answer.kind \in {"neterr", "http"} THEN FulfilledNull
    ELSE IF answer.kind = "badjson" THEN Fulfilled(Placeholder(selector))
    ELSE IF answer.hasResults /\ Len(answer.results) > 0
         THEN Fulfilled(ParseSignature(SortById(answer.results)[1].text_signature, selector))
         ELSE Fulfilled(Placeholder(selector))

\* lines 175-209: what the promise of fetchSignature(selector) settles to
FetchSignature(selector, answer) ==
    IF answer.kind = "neterr" THEN Fulfilled(Placeholder(selector))
    ELSE IF answer.kind = "http" THEN FulfilledNull
    ELSE IF answer.kind = "badjson" THEN Fulfilled(Placeholder(selector))
    ELSE IF answer.hasResults /\ Len(answer.results) > 0
         THEN Fulfilled(ParseSignature(SortById(answer.results)[1].text_signature, selector))
         ELSE Fulfilled(Placeholder(selector))

-----------------------------------------------------------------------------
(* Answers of the RPC node to eth_getCode.  ok is the HTTP ok flag, which  *)
(* the handler does not read (line 150).                                   *)

CodeAnswer(kind, ok, hasResult, result) ==
    [kind |-> kind, ok |-> ok, hasResult |-> hasResult, result |-> result]

NoCodeAnswer == CodeAnswer("none", FALSE, FALSE, <<>>)

CodeAnswers ==
    { CodeAnswer(k, FALSE, FALSE, <<>>) : k \in {"neterr", "badjson"} }
    \cup { CodeAnswer("body", TRUE, FALSE, <<>>),      \* no result member
           CodeAnswer("body", FALSE, FALSE, <<>>),
           CodeAnswer("body", TRUE, TRUE, <<>>),       \* result: ""
           CodeAnswer("body", TRUE, TRUE, <<"0", "x">>) }
    \cup { CodeAnswer("body", TRUE, TRUE, b) : b \in Bytecodes }
    \cup { CodeAnswer("body", FALSE, TRUE, <<"0","x", "6","3", "A","A","B","B","C","C","D","D">>) }

-----------------------------------------------------------------------------
(* The handler *)

Address == ParsedAddress(query)

Network == ParsedNetwork(query)

NoUpstream ==
    [primary |-> NoAnswer, source |-> NoSourceAnswer, impl |-> NoAnswer, code |-> NoCodeAnswer]

Init ==
    /\ pc = "idle"
    /\ query = [address |-> Absent, network |-> Absent]
    /\ env \in Envs
    /\ calls = <<>>
    /\ sent = <<>>
    /\ up = NoUpstream
    /\ abi = <<>>
    /\ contractName = <<>>
    /\ bytecode = <<>>
    /\ uniqueSelectors = <<>>
    /\ results = <<>>
    /\ lookups = <<>>
    /\ completed = <<>>

\* a tier 1 that also gives up on a verified ABI without entries
AbiFailureOnEmptyAbi(a) ==
    IF a.kind # "body" THEN "network"
    ELSE IF a.status # "1" \/ a.result = <<>> THEN "notverified"
    ELSE IF ~JsonParse(a.result).ok THEN "parse"
    ELSE IF JsonParse(a.result).value = <<>> THEN "empty"
    ELSE ""

\* a tier 1 that swallows the SyntaxError of JSON.parse
AbiFailureParseSwallowed(a) ==
    IF a.kind # "body" THEN "network"
    ELSE IF a.status # "1" \/ a.result = <<>> THEN "notverified"
    ELSE ""

\* lines 59-74: how the primary 'get ABI' step throws, "" when it does not
AbiFailure(a) ==
    IF a.kind = "neterr" THEN "network"
    ELSE IF a.kind = "http" THEN "http"
    ELSE IF a.kind = "badjson" THEN "json"
    ELSE IF a.status # "1" \/ a.result = <<>> THEN "notverified"
    ELSE IF ~JsonParse(a.result).ok THEN "parse"
    ELSE ""

\* lines 48-59: validation, then the first request of tier 1
ParseRequest(q) ==
    /\ pc = "idle"
    /\ query' = q
    /\ IF SchemaOk(q)
       THEN /\ calls' = Append(calls, ExplorerCall("getabi", ChainId(ParsedNetwork(q)),
                                                   ParsedAddress(q), env))
            /\ pc' = "getabi"
            /\ sent' = sent
       ELSE /\ sent' = Append(sent, Invalid400(q))
            /\ pc' = "done"
            /\ calls' = calls
    /\ UNCHANGED <<env, up, abi, contractName, bytecode, uniqueSelectors, results, lookups, completed>>

\* lines 59-80 and 122-148: the primary 'get ABI' answer arrives
GetAbiResponse(a) ==
    /\ pc = "getabi"
    /\ up' = [up EXCEPT !.primary = a]
    /\ IF AbiFailure(a) = ""
       THEN /\ abi' = JsonParse(a.result).value
            /\ contractName' = <<"Unknown Contract">>
            /\ calls' = Append(calls, ExplorerCall("getsourcecode", ChainId(Network), Address, env))
            /\ pc' = "getsource"
       ELSE /\ calls' = Append(calls, RpcCall(RpcUrl(env, Network), Address))
            /\ pc' = "getcode"
            /\ UNCHANGED <<abi, contractName>>
    /\ UNCHANGED <<query, env, sent, bytecode, uniqueSelectors, results, lookups, completed>>

\* line 83
SourceUsable(a) ==
    a.kind = "body" /\ a.status = "1" /\ a.isArray /\ Len(a.result) > 0

\* a proxy test that looks at the implementation address alone
IsProxyAnyImplementation(r) == r.Implementation # <<>>

\* line 88
IsProxy(r) == r.Proxy = "1" /\ r.Implementation # <<>>

\* line 85
NameOf(r) == IF r.ContractName # <<>> THEN r.ContractName ELSE <<"Unknown Contract">>

\* lines 80-92 and 107-120: the 'get source code' answer arrives
GetSourceResponse(a) ==
    /\ pc = "getsource"
    /\ up' = [up EXCEPT !.source = a]
    /\ IF SourceUsable(a)
       THEN /\ contractName' = NameOf(a.result[1])
            /\ IF IsProxy(a.result[1])
               THEN /\ calls' = Append(calls, ExplorerCall("getabi", ChainId(Network),
                                                           a.result[1].Implementation, env))
                    /\ pc' = "getimpl"
                    /\ sent' = sent
               ELSE /\ sent' = Append(sent, Verified200(Address, contractName', abi))
                    /\ pc' = "done"
                    /\ calls' = calls
       ELSE /\ sent' = Append(sent, Verified200(Address, contractName, abi))
            /\ pc' = "done"
            /\ UNCHANGED <<contractName, calls>>
    /\ UNCHANGED <<query, env, abi, bytecode, uniqueSelectors, results, lookups, completed>>

\* an implementation ABI taken over although its JSON did not parse
ImplObtainedUnparsed(a) ==
    a.kind = "body" /\ a.status = "1" /\ a.result # <<>>

\* lines 93-96: the implementation ABI was obtained
ImplObtained(a) ==
    a.kind = "body" /\ a.status = "1" /\ a.result # <<>> /\ JsonParse(a.result).ok

\* the union of the two ABIs instead of the replacement
SubstituteAbiUnion(own, implAbi) == own \o implAbi

\* line 100: the implementation's ABI replaces the proxy's own
SubstituteAbi(own, implAbi) == implAbi

\* lines 92-120: the implementation 'get ABI' answer arrives
GetImplResponse(a) ==
    /\ pc = "getimpl"
    /\ up' = [up EXCEPT !.impl = a]
    /\ IF ImplObtained(a)
       THEN /\ abi' = SubstituteAbi(abi, JsonParse(a.result).value)
            /\ contractName' = contractName \o <<" (Proxy)">>
       ELSE UNCHANGED <<abi, contractName>>
    /\ sent' = Append(sent, Verified200(Address, contractName', abi'))
    /\ pc' = "done"
    /\ UNCHANGED <<query, env, calls, bytecode, uniqueSelectors, results, lookups, completed>>

\* line 153
NoBytecode(a) == a.kind # "body" \/ ~a.hasResult \/ a.result = <<>> \/ a.result = <<"0", "x">>

\* lines 248-253: the answer to an error that reaches the outer catch
Internal500(message) == [status |-> 500, body |-> [success |-> FALSE, error |-> message]]

\* a recovery tier whose network errors escape to the outer catch
RecoveryFailureEscapes(a) ==
    IF a.kind = "neterr" THEN Internal500("fetch failed") ELSE Manual404

\* an address without code answered as an empty recovered ABI
RecoveryFailureEmpty200(a) ==
    IF a.kind = "body" /\ a.result = <<"0", "x">>
    THEN Recovered200(Address, <<>>)
    ELSE Manual404

\* lines 227-236: whatever made the recovery tier throw, the answer is the 404
RecoveryFailure(a) == Manual404

\* a recovery tier that never tests the selector list for emptiness
NoSelectorsUnchecked(selectors) == FALSE

\* line 165
NoSelectors(selectors) == Len(selectors) = 0

\* every lookup requested a second time
LookupCallsRetried(selectors) ==
    [i \in 1..(2 * Len(selectors)) |-> RegistryCall(selectors[((i - 1) % Len(selectors)) + 1])]

\* line 211: one fetchSignature, hence one registry request, per unique selector
LookupCalls(selectors) == [i \in DOMAIN selectors |-> RegistryCall(selectors[i])]

\* lines 150-211 and 227-236: the eth_getCode answer arrives
GetCodeResponse(a) ==
    /\ pc = "getcode"
    /\ up' = [up EXCEPT !.code = a]
    /\ IF NoBytecode(a) \/ NoSelectors(ExtractSelectors(a.result))
       THEN /\ sent' = Append(sent, RecoveryFailure(a))
            /\ pc' = "done"
            /\ bytecode' = IF NoBytecode(a) THEN <<>> ELSE a.result
            /\ UNCHANGED <<calls, uniqueSelectors, results, lookups>>
       ELSE /\ bytecode' = a.result
            /\ uniqueSelectors' = ExtractSelectors(a.result)
            /\ calls' = calls \o LookupCalls(uniqueSelectors')
            /\ results' = [i \in DOMAIN uniqueSelectors' |-> Pending]
            /\ lookups' = [i \in DOMAIN uniqueSelectors' |-> NoRegistryAnswer]
            /\ pc' = "resolving"
            /\ sent' = sent
    /\ UNCHANGED <<query, env, abi, contractName, completed>>

\* lines 177-208: the registry answers the lookup of selector number i
SigResponse(i, a) ==
    /\ pc = "resolving"
    /\ i \in DOMAIN results
    /\ results[i].state = "pending"
    /\ results' = [results EXCEPT ![i] = FetchSignature(uniqueSelectors[i], a)]
    /\ lookups' = [lookups EXCEPT ![i] = a]
    /\ completed' = Append(completed, i)
    /\ UNCHANGED <<pc, query, env, calls, sent, up, abi, contractName, bytecode, uniqueSelectors>>

\* line 213: results.filter(r => r !== null)
RECURSIVE NonNull(_)
NonNull(rs) ==
    IF Len(rs) = 0 THEN <<>>
    ELSE IF rs[1].null THEN NonNull(Tail(rs))
    ELSE <<rs[1].value>> \o NonNull(Tail(rs))

\* the descriptors gathered in the order the lookups settled
RecoveredAbiInCompletionOrder(rs) == NonNull([n \in DOMAIN completed |-> rs[completed[n]]])

\* lines 212-213: the values of Promise.all, in the order of the promises
RecoveredAbi(rs) == NonNull(rs)

\* a join that waits for a descriptor from every lookup
AllSettledWithValue(rs) == \A i \in DOMAIN rs : rs[i].state = "fulfilled" /\ ~rs[i].null

\* a join that resumes as soon as one lookup has settled
AnySettled(rs) == \E i \in DOMAIN rs : rs[i].state = "fulfilled"

\* line 212: Promise.all is settled
AllSettled(rs) == \A i \in DOMAIN rs : rs[i].state = "fulfilled"

\* lines 212-225: every lookup has settled, the recovered ABI is sent
JoinAll ==
    /\ pc = "resolving"
    /\ AllSettled(results)
    /\ sent' = Append(sent, Recovered200(Address, RecoveredAbi(results)))
    /\ pc' = "done"
    /\ UNCHANGED <<query, env, calls, up, abi, contractName, bytecode, uniqueSelectors,
                   results, lookups, completed>>

\* every malformed query, and three well-formed ones
Queries ==
    [address : QueryAddresses \ {Given(AddrLower), Given(AddrMixed)}, network : QueryNetworks]
    \cup [address : {Given(AddrLower), Given(AddrMixed)},
          network : {Given(<<"goerli">>), Given(<<"">>)}]
    \cup { [address |-> Given(AddrLower), network |-> Absent],
           [address |-> Given(AddrLower), network |-> Given(<<"testnet">>)],
           [address |-> Given(AddrMixed), network |-> Given(<<"mainnet">>)] }

Next ==
    \/ \E q \in Queries : ParseRequest(q)
    \/ \E a \in AbiAnswers : GetAbiResponse(a)
    \/ \E a \in SourceAnswers : GetSourceResponse(a)
    \/ \E a \in AbiAnswers : GetImplResponse(a)
    \/ \E a \in CodeAnswers : GetCodeResponse(a)
    \/ \E i \in 1..Len(results) : \E a \in RegistryAnswers : SigResponse(i, a)
    \/ JoinAll

Spec == Init /\ [][Next]_vars

\* every external call is answered or fails, and the handler resumes after each await
Answered ==
    \/ \E a \in AbiAnswers : GetAbiResponse(a)
    \/ \E a \in SourceAnswers : GetSourceResponse(a)
    \/ \E a \in AbiAnswers : GetImplResponse(a)
    \/ \E a \in CodeAnswers : GetCodeResponse(a)
    \/ \E i \in 1..Len(results) : \E a \in RegistryAnswers : SigResponse(i, a)
    \/ JoinAll

\* the configuration decides what is asked of whom, not whether the handler goes on
InitConfigured == Init /\ env = [apiKey |-> "KEY", rpcUrl |-> <<"https://", "rpc.example">>]

FairSpec == InitConfigured /\ [][Next]_vars /\ WF_vars(Answered)

-----------------------------------------------------------------------------
(* The selector scan on its own: lines 162-163 applied to bytecodes made   *)
(* of whole bytes, up to MaxChunks pieces each                             *)

Chunks ==
    { <<"6","3">>,
      <<"a","a","b","b","c","c","d","d">>,
      <<"A","A","B","B","C","C","D","D">>,
      <<"1","6","3","a">>,
      <<"0","0">> }

RECURSIVE Flatten(_)
Flatten(cs) == IF Len(cs) = 0 THEN <<>> ELSE cs[1] \o Flatten(Tail(cs))

ScanInputs == { <<"0", "x">> \o Flatten(cs) : cs \in SeqsUpTo(Chunks, MaxChunks) }

InitExtract ==
    /\ pc = "scan"
    /\ query = [address |-> Absent, network |-> Absent]
    /\ env = [apiKey |-> "", rpcUrl |-> <<>>]
    /\ calls = <<>>
    /\ sent = <<>>
    /\ up = NoUpstream
    /\ abi = <<>>
    /\ contractName = <<>>
    /\ bytecode \in ScanInputs
    /\ uniqueSelectors = <<>>
    /\ results = <<>>
    /\ lookups = <<>>
    /\ completed = <<>>

\* lines 162-163
Scan ==
    /\ pc = "scan"
    /\ uniqueSelectors' = ExtractSelectors(bytecode)
    /\ pc' = "scanned"
    /\ UNCHANGED <<query, env, calls, sent, up, abi, contractName, bytecode, results, lookups,
                   completed>>

SpecExtract == InitExtract /\ [][Scan]_vars

-----------------------------------------------------------------------------
(* What the claims speak of, stated on the request and on the upstream     *)
(* answers rather than on the handler's own decisions                      *)

\* the request is not the one the interface asks for
MalformedRequest ==
    \/ ~query.address.present
    \/ Len(query.address.text) # 42
    \/ SubSeq(query.address.text, 1, 2) # <<"0", "x">>
    \/ \E i \in 3..Len(query.address.text) : query.address.text[i] \notin HexDigits
    \/ query.network.present /\ query.network.text \notin {<<"mainnet">>, <<"testnet">>}

\* the primary 'get ABI' step was answered, and not with a verified ABI
ExplorerFailed ==
    \/ up.primary.kind \in {"neterr", "http", "badjson"}
    \/ up.primary.kind = "body"
       /\ (up.primary.status # "1" \/ up.primary.result = <<>> \/ ~up.primary.wellFormed)

\* the primary 'get ABI' step was answered with a verified ABI
ExplorerSucceeded ==
    up.primary.kind = "body" /\ up.primary.status = "1" /\ up.primary.wellFormed

CallsTo(whom) == {i \in DOMAIN calls : calls[i].to = whom}

TheManual404 ==
    [status |-> 404,
     body |-> [success |-> FALSE, error |-> "Contract not verified and recovery failed",
               code |-> "REQUIRE_MANUAL_ABI"]]

-----------------------------------------------------------------------------
(* C1: a request whose address does not match 0x + 40 hex digits, or whose *)
(* network is present and neither mainnet nor testnet, is answered 400     *)
(* 'Invalid request', and no external call is issued for it, before or     *)
(* after the response.                                                     *)
C1_InvalidRequestRejected ==
    (pc # "idle" /\ MalformedRequest) =>
        /\ pc = "done"
        /\ calls = <<>>
        /\ Len(sent) = 1
        /\ sent[1].status = 400
        /\ sent[1].body.success = FALSE
        /\ sent[1].body.error = "Invalid request"

C1_Witness ==
    /\ pc = "done"
    /\ query.address = Given(AddrLower)
    /\ query.network = Given(<<"goerli">>)
    /\ Len(sent) = 1
    /\ sent[1].status = 400

(* C2: the RPC call and the registry lookups are issued only after the     *)
(* explorer tier has ended in failure, and after every explorer call; when *)
(* the explorer tier succeeds, neither is ever issued.                     *)
C2_TiersSequential ==
    /\ \A i \in CallsTo("rpc") \cup CallsTo("registry") :
          /\ ExplorerFailed
          /\ \A j \in CallsTo("explorer") : j < i
    /\ \A i \in CallsTo("registry") : \A j \in CallsTo("rpc") : j < i
    /\ ExplorerSucceeded => CallsTo("rpc") \cup CallsTo("registry") = {}

C2_Witness ==
    /\ pc = "done"
    /\ CallsTo("rpc") # {}
    /\ Cardinality(CallsTo("registry")) = 2
    /\ up.primary.kind = "body"
    /\ up.primary.status = "0"

(* C3: every kind of failure of the primary 'get ABI' step moves on to the *)
(* recovery tier: the eth_getCode call is the next call issued, no         *)
(* response has been sent when it is issued, and no response is ever sent  *)
(* by the verified tier.                                                   *)
C3_FailureFallsThrough ==
    ExplorerFailed =>
        /\ pc \in {"getcode", "resolving", "done"}
        /\ Len(calls) >= 2
        /\ calls[2].to = "rpc"
        /\ calls[2].method = "eth_getCode"
        /\ calls[2].params = <<query.address.text, "latest">>
        /\ CallsTo("explorer") = {1}
        /\ pc = "getcode" => sent = <<>>
        /\ \A k \in DOMAIN sent :
              \/ sent[k].status = 404
              \/ sent[k].status = 200 /\ sent[k].body.data.isVerified = FALSE

C3_Witness ==
    /\ pc = "getcode"
    /\ up.primary.kind = "body"
    /\ up.primary.status = "1"
    /\ up.primary.result = <<"[", "transfer", ",", "]">>
    /\ Len(calls) = 2
    /\ calls[2].to = "rpc"

(* C4: for a well-formed request no upstream failure produces a 400 or a   *)
(* 500: the only answer other than a 200 is the 404 with code              *)
(* REQUIRE_MANUAL_ABI, the same whatever failed.                           *)
C4_OnlyManual404 ==
    (pc # "idle" /\ ~MalformedRequest) =>
        \A k \in DOMAIN sent : sent[k].status # 200 => sent[k] = TheManual404

C4_Witness ==
    /\ pc = "done"
    /\ up.primary.kind = "http"
    /\ up.code.kind = "neterr"
    /\ sent = <<TheManual404>>

-----------------------------------------------------------------------------
(* The recovered ABI and the lookups, as the claims speak of them *)

RecoveredSent == Len(sent) = 1 /\ sent[1].status = 200 /\ sent[1].body.data.isVerified = FALSE

VerifiedSent == Len(sent) = 1 /\ sent[1].status = 200 /\ sent[1].body.data.isVerified = TRUE

SentAbi == sent[1].body.data.abi

\* the selectors whose lookup was not answered with a non-OK HTTP status
Kept == {i \in DOMAIN lookups : lookups[i].kind # "http"}

NthKept(n) == CHOOSE i \in Kept : Cardinality({j \in Kept : j < i}) = n - 1

\* the candidate with the smallest identifier, the first listed among equals
LowestId(l) ==
    l[CHOOSE i \in DOMAIN l :
        \A j \in DOMAIN l : l[i].id < l[j].id \/ (l[i].id = l[j].id /\ i <= j)]

\* the signature texts of the form identifier ( type-list )
GrammaticalTexts ==
    { <<"s","e","t","(","i","n","t",","," ","i","n","t",")">>, <<"r","u","n","(",")">> }

ThePlaceholder(selector) ==
    [type |-> "function",
     name |-> <<"u","n","k","n","o","w","n","_">> \o SubSeq(selector, 3, 10),
     inputs |-> <<>>,
     stateMutability |-> "nonpayable",
     selector |-> selector]

\* the lookup of selector i ended in one of the three ways C6 names
LookupFellBack(i) ==
    \/ lookups[i].kind = "neterr"
    \/ lookups[i].kind = "body" /\ (~lookups[i].hasResults \/ lookups[i].results = <<>>)
    \/ /\ lookups[i].kind = "body"
       /\ lookups[i].hasResults
       /\ lookups[i].results # <<>>
       /\ LowestId(lookups[i].results).text_signature \notin GrammaticalTexts

C6_PlaceholderOnFailure ==
    \A i \in DOMAIN lookups :
        lookups[i].kind # "none" =>
            /\ results[i].state = "fulfilled"
            /\ LookupFellBack(i) =>
                  /\ ~results[i].null
                  /\ results[i].value = ThePlaceholder(uniqueSelectors[i])

C6_Witness ==
    /\ Len(lookups) = 2
    /\ lookups[1].kind = "body"
    /\ lookups[1].hasResults
    /\ Len(lookups[1].results) = 2
    /\ lookups[1].results[1].id = 5
    /\ lookups[1].results[2].text_signature = <<"r","-","n","(",")">>
    /\ lookups[2].kind = "body"
    /\ lookups[2].results = <<>>
    /\ results[1].value.name = <<"u","n","k","n","o","w","n","_","a","9","0","5","9","c","b","b">>
    /\ results[2].value.name = <<"u","n","k","n","o","w","n","_","0","9","5","e","a","7","b","3">>

-----------------------------------------------------------------------------
(* The metadata and the implementation, as the claims speak of them *)

\* the metadata names a first record
HasRecord == up.source.kind = "body" /\ up.source.isArray /\ Len(up.source.result) > 0

ProxyFlag == HasRecord /\ up.source.result[1].Proxy = "1"

\* the 'get ABI' step for the implementation was answered with a verified ABI
ImplSucceeded ==
    up.impl.kind = "body" /\ up.impl.status = "1" /\ up.impl.wellFormed

HasProxySuffix(name) == Len(name) > 0 /\ name[Len(name)] = " (Proxy)"

(* C7: when 'get ABI' succeeds with valid ABI JSON and the metadata        *)
(* carries no proxy flag, the answer is 200, isVerified, with the          *)
(* request's address and the entries the explorer serialized, in order,    *)
(* none added, dropped or deduplicated.                                    *)
C7_VerifiedAbiRoundTrip ==
    (pc = "done" /\ ExplorerSucceeded /\ ~ProxyFlag) =>
        /\ VerifiedSent
        /\ sent[1].body.success = TRUE
        /\ sent[1].body.data.address = query.address.text
        /\ SentAbi = up.primary.entries

C7_Witness ==
    /\ pc = "done"
    /\ ExplorerSucceeded
    /\ HasRecord
    /\ up.source.status = "1"
    /\ up.source.result[1].Proxy = "0"
    /\ up.source.result[1].Implementation = AddrImpl
    /\ VerifiedSent
    /\ SentAbi = <<"transfer", "transfer">>

(* C8: when the metadata reports Proxy = '1' with a non-empty              *)
(* implementation address and 'get ABI' for that address succeeds, the     *)
(* abi of the 200 answer is exactly the implementation's and the name is   *)
(* the contract name followed by ' (Proxy)'; a name carries that suffix    *)
(* only then.                                                              *)
C8_ProxySubstitution ==
    pc = "done" =>
        /\ (ExplorerSucceeded /\ ProxyFlag /\ up.source.result[1].Implementation # <<>>
            /\ ImplSucceeded) =>
              /\ VerifiedSent
              /\ SentAbi = up.impl.entries
              /\ sent[1].body.data.name =
                    (IF up.source.result[1].ContractName = <<>>
                     THEN <<"Unknown Contract">>
                     ELSE up.source.result[1].ContractName) \o <<" (Proxy)">>
        /\ \A k \in DOMAIN sent :
              (sent[k].status = 200 /\ HasProxySuffix(sent[k].body.data.name)) =>
                  ProxyFlag /\ ImplSucceeded

C8_Witness ==
    /\ pc = "done"
    /\ up.primary.entries = <<"transfer">>
    /\ ProxyFlag
    /\ ImplSucceeded
    /\ VerifiedSent
    /\ SentAbi = <<"approve">>
    /\ sent[1].body.data.name = <<"Vault", " (Proxy)">>

(* C9: once the primary 'get ABI' has succeeded, no outcome of 'get source *)
(* code' or of the implementation 'get ABI' fails the tier: the answer is  *)
(* 200 with isVerified, and unless the implementation ABI was obtained the *)
(* abi is the address's own verified ABI.                                  *)
C9_EnrichmentBestEffort ==
    ExplorerSucceeded =>
        /\ pc \in {"getsource", "getimpl", "done"}
        /\ pc = "done" =>
              /\ VerifiedSent
              /\ ~ImplSucceeded => SentAbi = up.primary.entries

C9_Witness ==
    /\ pc = "done"
    /\ up.primary.entries = <<"transfer", "approve">>
    /\ ProxyFlag
    /\ up.impl.kind = "body"
    /\ up.impl.status = "1"
    /\ up.impl.result = <<"[", "transfer">>
    /\ VerifiedSent
    /\ SentAbi = <<"transfer", "approve">>

(* C10: if the explorer tier fails and eth_getCode gives no result or the  *)
(* empty-code sentinel 0x, the answer is the 404 REQUIRE_MANUAL_ABI, and   *)
(* no selector is extracted and no registry lookup issued.                 *)
C10_NoBytecodeIsManual ==
    (ExplorerFailed /\ up.code.kind = "body"
     /\ (~up.code.hasResult \/ up.code.result = <<"0", "x">>)) =>
        /\ pc = "done"
        /\ sent = <<TheManual404>>
        /\ uniqueSelectors = <<>>
        /\ results = <<>>
        /\ CallsTo("registry") = {}

C10_Witness ==
    /\ pc = "done"
    /\ ExplorerFailed
    /\ up.code.kind = "body"
    /\ up.code.hasResult
    /\ up.code.result = <<"0", "x">>
    /\ sent = <<TheManual404>>

-----------------------------------------------------------------------------
\* the descriptor that a signature text of GrammaticalTexts stands for
TheDescriptor(text, selector) ==
    IF text = <<"r","u","n","(",")">>
    THEN [type |-> "function", name |-> <<"r","u","n">>, inputs |-> <<>>,
          stateMutability |-> "nonpayable", selector |-> selector]
    ELSE [type |-> "function", name |-> <<"s","e","t">>,
          inputs |-> << [type |-> <<"i","n","t">>, name |-> <<>>],
                        [type |-> <<"i","n","t">>, name |-> <<>>] >>,
          stateMutability |-> "nonpayable", selector |-> selector]

(* C11: when the registry lists one or more candidates, the descriptor is  *)
(* derived from the candidate with the smallest identifier alone, whatever *)
(* the order of the listing: if its text parses, the descriptor has that   *)
(* text's name and input types.                                            *)
C11_LowestIdChosen ==
    \A i \in DOMAIN lookups :
        (/\ lookups[i].kind = "body"
         /\ lookups[i].hasResults
         /\ lookups[i].results # <<>>
         /\ LowestId(lookups[i].results).text_signature \in GrammaticalTexts) =>
            /\ results[i].state = "fulfilled"
            /\ ~results[i].null
            /\ results[i].value =
                  TheDescriptor(LowestId(lookups[i].results).text_signature, uniqueSelectors[i])

C11_Witness ==
    /\ Len(lookups) >= 1
    /\ lookups[1].kind = "body"
    /\ lookups[1].hasResults
    /\ Len(lookups[1].results) = 2
    /\ lookups[1].results[1].id = 5
    /\ lookups[1].results[1].text_signature = <<"r","u","n","(",")">>
    /\ lookups[1].results[2].id = 2
    /\ lookups[1].results[2].text_signature \in GrammaticalTexts
    /\ results[1].value.name = <<"s","e","t">>
    /\ Len(results[1].value.inputs) = 2

-----------------------------------------------------------------------------
(* The scan, as the claims speak of it *)

\* the offsets of the bytecode text where the digits 63 and eight hex digits stand
Push4Offsets ==
    { k \in 1..(Len(bytecode) - 9) :
        /\ bytecode[k] = "6"
        /\ bytecode[k + 1] = "3"
        /\ \A j \in (k + 2)..(k + 9) : bytecode[j] \in HexDigits }

\* those of them that start a byte: the text is 0x and then two digits a byte
AlignedPush4Offsets == { k \in Push4Offsets : k % 2 = 1 }

ImmediateAt(k) == <<"0", "x">> \o SubSeq(bytecode, k + 2, k + 9)

(* C12, as claimed: each distinct push-4 immediate is returned once, in    *)
(* lower case, whatever its letter case in the bytecode.                   *)
C12_CanonicalOnce_Claimed ==
    pc = "scanned" =>
        /\ \A i \in DOMAIN uniqueSelectors : uniqueSelectors[i] = Lower(uniqueSelectors[i])
        /\ \A i, j \in DOMAIN uniqueSelectors :
              Lower(uniqueSelectors[i]) = Lower(uniqueSelectors[j]) => i = j

(* C12, amended: each distinct captured text of eight hex digits is        *)
(* returned once, 0x-prefixed, in the letter case it has in the bytecode;  *)
(* texts are told apart by exact comparison.                               *)
C12_ExactTextOnce ==
    pc = "scanned" =>
        /\ \A i, j \in DOMAIN uniqueSelectors :
              uniqueSelectors[i] = uniqueSelectors[j] => i = j
        /\ \A i \in DOMAIN uniqueSelectors :
              /\ Len(uniqueSelectors[i]) = 10
              /\ \E k \in Push4Offsets : ImmediateAt(k) = uniqueSelectors[i]
        /\ \A k \in Push4Offsets :
              \/ ImmediateAt(k) \in Range(uniqueSelectors)
              \/ \E m \in Push4Offsets : m < k /\ k - m <= 9

C12_Witness ==
    /\ pc = "scanned"
    /\ bytecode = <<"0","x", "6","3", "A","A","B","B","C","C","D","D",
                             "6","3", "A","A","B","B","C","C","D","D">>
    /\ uniqueSelectors = << <<"0","x", "A","A","B","B","C","C","D","D">> >>

(* C15, as claimed: the values returned are exactly those that follow a    *)
(* byte 0x63 standing at a byte boundary with four bytes after it (letter  *)
(* case aside).                                                            *)
C15_ByteAlignedPush4 ==
    pc = "scanned" =>
        {Lower(uniqueSelectors[i]) : i \in DOMAIN uniqueSelectors}
            = {Lower(ImmediateAt(k)) : k \in AlignedPush4Offsets}

-----------------------------------------------------------------------------
(* The addresses that leave the handler *)

\* 0x and 40 hex digits, of either letter case
AddressShaped(t) ==
    /\ Len(t) = 42
    /\ SubSeq(t, 1, 2) = <<"0", "x">>
    /\ \A i \in 3..42 : t[i] \in HexDigits

AddressesInCalls ==
    {calls[i].address : i \in CallsTo("explorer")}
    \cup {calls[i].params[1] : i \in CallsTo("rpc")}

AddressesInResponses ==
    {sent[k].body.data.address : k \in {n \in DOMAIN sent : sent[n].status = 200}}

(* C13, as claimed: every address that reaches an external call or a 200  *)
(* response is 0x, 40 hex digits, all lower case.                          *)
C13_AddressCanonical_Claimed ==
    \A t \in AddressesInCalls \cup AddressesInResponses :
        AddressShaped(t) /\ t = Lower(t)

(* C13, amended: the request's address is accepted when it is 0x and 40    *)
(* hex digits of either letter case, and it reaches every external call    *)
(* made for it and the 200 response exactly as the caller wrote it.        *)
C13_AddressCarriedVerbatim ==
    /\ (calls # <<>> \/ AddressesInResponses # {}) =>
          /\ query.address.present
          /\ AddressShaped(query.address.text)
    /\ \A i \in CallsTo("explorer") :
          calls[i].address =
              (IF i = 3 THEN up.source.result[1].Implementation ELSE query.address.text)
    /\ \A i \in CallsTo("rpc") : calls[i].params[1] = query.address.text
    /\ \A t \in AddressesInResponses : t = query.address.text

C13_Witness ==
    /\ pc = "done"
    /\ query.address = Given(AddrMixed)
    /\ Len(calls) = 2
    /\ calls[1].address = AddrMixed
    /\ calls[2].to = "explorer"
    /\ calls[2].address = AddrMixed
    /\ VerifiedSent
    /\ sent[1].body.data.address = AddrMixed

-----------------------------------------------------------------------------
(* C14: the tier tag of a 200 answer names the tier its abi came from:     *)
(* isVerified true and no isRecovered exactly when the abi is the          *)
(* explorer's, isVerified false and isRecovered true exactly when it was   *)
(* recovered from the bytecode; never both true.                           *)
C14_TierTagMatches ==
    \A k \in DOMAIN sent :
        sent[k].status = 200 =>
            /\ sent[k].body.data.isVerified = ExplorerSucceeded
            /\ sent[k].body.data.isVerified = ~ExplorerFailed
            /\ sent[k].body.data.isVerified =>
                  /\ "isRecovered" \notin DOMAIN sent[k].body.data
                  /\ sent[k].body.data.abi \in {up.primary.entries, up.impl.entries}
            /\ ~sent[k].body.data.isVerified =>
                  /\ "isRecovered" \in DOMAIN sent[k].body.data
                  /\ sent[k].body.data.isRecovered = TRUE
                  /\ up.code.kind = "body"
                  /\ \A n \in DOMAIN sent[k].body.data.abi :
                        sent[k].body.data.abi[n].selector \in Range(uniqueSelectors)

C14_Witness ==
    /\ pc = "done"
    /\ ExplorerFailed
    /\ Len(sent) = 1
    /\ sent[1].status = 200
    /\ sent[1].body.data.isVerified = FALSE
    /\ sent[1].body.data.isRecovered = TRUE
    /\ Len(sent[1].body.data.abi) = 2

-----------------------------------------------------------------------------
(* C16: no response, neither the recovered 200 nor the 404, is sent while  *)
(* a signature lookup of the request is still pending.                     *)
C16_ResponseAfterJoin ==
    sent # <<>> =>
        /\ \A i \in DOMAIN results : results[i].state = "fulfilled"
        /\ Len(completed) = Len(uniqueSelectors)
        /\ Cardinality(CallsTo("registry")) = Len(completed)

C16_Witness ==
    /\ RecoveredSent
    /\ Len(uniqueSelectors) = 2
    /\ completed = <<2, 1>>
    /\ Len(SentAbi) = 2

\* the first offset of the bytecode text at which a selector is pushed
FirstOffset(selector) ==
    CHOOSE k \in Push4Offsets :
        /\ ImmediateAt(k) = selector
        /\ \A m \in Push4Offsets : ImmediateAt(m) = selector => k <= m

(* C17: the descriptors of a recovered abi stand in the order in which     *)
(* their selectors first occur in the bytecode, whatever the order in      *)
(* which the lookups settled: the abi is determined by the bytecode and    *)
(* the outcome of each selector's lookup.                                  *)
C17_OrderIndependentOfCompletion ==
    /\ \A i, j \in DOMAIN uniqueSelectors :
          i < j => FirstOffset(uniqueSelectors[i]) < FirstOffset(uniqueSelectors[j])
    /\ RecoveredSent =>
          SentAbi = [n \in 1..Cardinality(Kept) |-> results[NthKept(n)].value]

C17_Witness ==
    /\ RecoveredSent
    /\ completed = <<2, 1>>
    /\ Len(SentAbi) = 2
    /\ SentAbi[1].selector = <<"0","x", "a","9","0","5","9","c","b","b">>
    /\ SentAbi[2].selector = <<"0","x", "0","9","5","e","a","7","b","3">>
    /\ SentAbi[1].name # SentAbi[2].name

-----------------------------------------------------------------------------
ExplorerCalls(action, address) ==
    {i \in CallsTo("explorer") : calls[i].action = action /\ calls[i].address = address}

(* C18: no step is retried: within one request the 'get ABI' call for the  *)
(* requested address, the 'get source code' call, the implementation       *)
(* 'get ABI' call and the eth_getCode call are each issued at most once,   *)
(* and the registry is asked at most once per unique selector.             *)
C18_NoRetry ==
    /\ Cardinality(ExplorerCalls("getabi", query.address.text)) <= 1
    /\ Cardinality({i \in CallsTo("explorer") : calls[i].action = "getsourcecode"}) <= 1
    /\ Cardinality({i \in CallsTo("explorer") :
                       calls[i].action = "getabi" /\ calls[i].address # query.address.text}) <= 1
    /\ Cardinality(CallsTo("rpc")) <= 1
    /\ \A i, j \in CallsTo("registry") :
          calls[i].hex_signature = calls[j].hex_signature => i = j
    /\ Cardinality(CallsTo("registry")) = Len(uniqueSelectors)
    /\ Len(calls) <= 3 + Len(uniqueSelectors)

C18_Witness ==
    /\ pc = "done"
    /\ up.primary.kind = "neterr"
    /\ Len(lookups) = 2
    /\ lookups[1].kind = "neterr"
    /\ lookups[2].kind = "http"
    /\ Len(calls) = 4
    /\ Cardinality(CallsTo("registry")) = 2

-----------------------------------------------------------------------------
(* C19: provided every external call is answered or fails, every request   *)
(* reaches a terminal outcome, sends exactly one response for it, and      *)
(* takes no step after it: no call and no second response.                 *)
C19_OneTerminalOutcome ==
    /\ [](Len(sent) <= 1)
    /\ [](Len(sent) = 1 <=> pc = "done")
    /\ [][Len(sent) = 1 => (calls' = calls /\ sent' = sent /\ pc' = pc)]_vars
    /\ (pc # "idle") ~> (pc = "done")

C19_Witness ==
    /\ pc = "done"
    /\ RecoveredSent
    /\ Len(completed) = 2
    /\ lookups[1].kind = "http"

-----------------------------------------------------------------------------
====
